---------------------------- MODULE Spec2Model ----------------------------
(***************************************************************************)
(* State-machine model of the school web server: REST write handlers, the  *)
(* MongoDB change-stream handlers and the Socket.IO fan-out.               *)
(*                                                                         *)
(* The repository holds three builds of the server:                        *)
(*   variant 1  src/server.js lines 1-965                                  *)
(*   variant 2  src/server.js lines 966-2216 (src/unnamed/part_000 is an   *)
(*              abridged copy of it with the same change streams, socket   *)
(*              setup and inquiry routes)                                  *)
(* The variant is fixed when the process starts.                           *)
(***************************************************************************)
EXTENDS Integers, Sequences, FiniteSets, TLC

VARIABLES
    variant,     \* which build of the server runs (1 or 2)
    baseUrlEnv,  \* process.env.BASE_URL ("" when unset)
    running,     \* the node process is alive
    store,       \* store[k]: the collection of kind k, a function id -> document
    nreq,        \* number of write requests received so far
    reqs,        \* handlers suspended at their await, store call already executed
    responses,   \* responses[w]: HTTP status answered to request w (0: none yet)
    feed,        \* feed[k]: change events of collection k not yet handled
    lookups,     \* findById calls started by change-stream 'update' handlers
    nconn,       \* number of sockets that have connected so far
    open,        \* sockets currently connected
    rooms,       \* rooms[s]: rooms socket s has joined
    inbox,       \* inbox[s]: events socket s has received over its connection, in order
    emitted,     \* every event handed to io.emit, in order
    joinedAt,    \* joinedAt[s]: Len(emitted) when s connected
    leftAt,      \* leftAt[s]: Len(emitted) when s disconnected
    sent,        \* sent[s]: join messages s has sent since it connected, in order
    writes,      \* writes[w]: the write request w committed to the store, if any
    listing      \* responses given to GET /api/inquiries requests so far

vars == <<variant, baseUrlEnv, running, store, nreq, reqs, responses, feed,
          lookups, nconn, open, rooms, inbox, emitted, joinedAt, leftAt, sent,
          writes, listing>>

\* ---------------------------------------------------------------- bounds
MaxReq == 2      \* write requests per run
MaxConn == 2     \* socket connections per run
MaxLoad == 3     \* write requests plus socket connections per run
MaxJoin == 2     \* join messages per connection
MaxDocs == 3     \* inquiries in the collection a listing reads
MaxTime == 2     \* distinct timestamp values of those inquiries
MaxLimit == 2    \* largest limit query parameter
MaxPage == 3     \* largest page query parameter
MaxGet == 3      \* listing requests per run

Kinds == {"inquiry", "announcement", "school", "review"}
Rooms == {"announcements", "schools", "reviews"}
Sockets == 1..MaxConn
Wids == 1..MaxReq
ReqOrigin == "http://h"      \* req.protocol://req.get('host') of every request
UploadFile == "a.png"         \* req.file.filename of every upload

\* The fields every document has, with the values of the document each
\* collection holds at start-up (written by an earlier run).
SeedDoc == [id |-> 0, ver |-> 0, img |-> UploadFile]

\* The rating a request body carries: one inside the schema's 1..5 when the
\* body is valid, one above its max when it is not.
RatingOf(input) == IF input = "invalid" THEN 6 ELSE 3

\* The status a PATCH /api/inquiries/:id/status body carries: a member of the
\* schema's enum when the body is valid, another string when it is not.
StatusOf(input) == IF input = "invalid" THEN "archived" ELSE "contacted"

\* The document `new Model({...})` builds for record i in request w: a review
\* takes its rating from the body, an inquiry gets the schema's default status
\* and `req.body.timestamp || new Date()` (here the time of request w).
NewDoc(k, i, w, input) ==
    CASE k = "review" ->
            [id |-> i, ver |-> w, img |-> SeedDoc.img, rating |-> RatingOf(input)]
      [] k = "inquiry" ->
            [id |-> i, ver |-> w, img |-> SeedDoc.img, status |-> "new", timestamp |-> w]
      [] OTHER -> [SeedDoc EXCEPT !.id = i, !.ver = w]

\* The document findByIdAndUpdate leaves in the store for request w.
UpdatedDoc(k, old, w, input) ==
    CASE k = "review" -> [old EXCEPT !.ver = w, !.rating = RatingOf(input)]
      [] k = "inquiry" -> [old EXCEPT !.ver = w, !.status = StatusOf(input)]
      [] OTHER -> [old EXCEPT !.ver = w]

\* No committed write (the value of writes[w] until request w commits one).
NoWrite == [kind |-> "none", op |-> "none", id |-> 0]

\* Start-up configurations: (variant, BASE_URL).  BASE_URL is varied for
\* variant 1, whose schools change-stream handler depends on its being set.
Configs == {<<1, "">>, <<1, "https://cdn">>, <<2, "">>}

\* ------------------------------------------------------- pure functions

\* getBaseUrl(req): process.env.BASE_URL || `${req.protocol}://${req.get('host')}`
getBaseUrl(origin) == IF baseUrlEnv # "" THEN baseUrlEnv ELSE origin

\* formatImageUrl(req, filename)
formatImageUrl(origin, filename) == getBaseUrl(origin) \o "/uploads/" \o filename

\* `data:${image.contentType};base64,${image.data}` (variant 1 announcements)
dataUri(image) == "data:" \o image

\* The object a REST handler hands to broadcastToClients (and to the response)
\* after a successful create or update.
DirectPayload(k, doc) ==
    CASE variant = 1 /\ k = "announcement" ->
            [id |-> doc.id, ver |-> doc.ver, img |-> doc.img, imageUrl |-> dataUri(doc.img)]
      [] variant = 1 /\ k = "school" ->
            [doc EXCEPT !.img = getBaseUrl(ReqOrigin) \o "/uploads/" \o doc.img]
      [] variant = 2 /\ k \in {"announcement", "school"} ->
            [doc EXCEPT !.img = formatImageUrl(ReqOrigin, doc.img)]
      [] OTHER -> doc

\* Does the change-stream handler of collection k throw while building its
\* payload?  Only variant 1's schools handler can: it evaluates `req`, which is
\* not defined there, when BASE_URL is unset.
StreamThrows(k) == variant = 1 /\ k = "school" /\ baseUrlEnv = ""

\* The object a change-stream handler hands to io.emit for an insert or for a
\* resolved update.
StreamPayload(k, doc) ==
    CASE variant = 1 /\ k = "announcement" ->
            [id |-> doc.id, ver |-> doc.ver, img |-> doc.img, imageUrl |-> dataUri(doc.img)]
      [] variant = 1 /\ k = "school" ->
            [doc EXCEPT !.img = baseUrlEnv \o "/uploads/" \o doc.img]
      [] OTHER -> doc

\* The object a DELETE handler hands to broadcastToClients: variant 1 takes
\* the id from the document findByIdAndDelete returned, variant 2 from
\* req.params.id.
DirectDeletedPayloadMutantSnapshot(r) == r.result
DirectDeletedPayload(r) ==
    [id |-> IF variant = 1 THEN r.result.id ELSE r.id]

\* The object a change-stream handler hands to io.emit for a delete:
\* { id: change.documentKey._id }
StreamDeletedPayload(c) == [id |-> c.id]

\* Event names used by the REST handlers' broadcastToClients calls.
DirectEventName(k, op) ==
    CASE k = "inquiry" /\ op = "create" -> "inquiry_created"
      [] k = "announcement" /\ op = "create" -> "announcement_created"
      [] k = "announcement" /\ op = "update" -> "announcement_updated"
      [] k = "announcement" /\ op = "delete" -> "announcement_deleted"
      [] k = "school" /\ op = "create" -> "school_created"
      [] k = "school" /\ op = "update" -> "school_updated"
      [] k = "school" /\ op = "delete" -> "school_deleted"
      [] k = "review" /\ op = "create" -> "review_created"
      [] k = "review" /\ op = "update" -> "review_updated"
      [] k = "review" /\ op = "delete" -> "review_deleted"

\* Event names used by the change-stream handlers, by change.operationType.
\* "" means the handler has no branch for that operation type.
StreamEventNameMutantDelete(k, opType) ==
    CASE k = "inquiry" /\ opType = "insert" -> "inquiry_created"
      [] k = "inquiry" -> ""
      [] opType = "insert" -> k \o "_created"
      [] opType = "update" -> k \o "_updated"
      [] opType = "delete" -> k \o "_updated"
StreamEventName(k, opType) ==
    CASE k = "inquiry" /\ opType = "insert" -> "inquiry_created"
      [] k = "inquiry" -> ""
      [] k = "announcement" /\ opType = "insert" -> "announcement_created"
      [] k = "announcement" /\ opType = "update" -> "announcement_updated"
      [] k = "announcement" /\ opType = "delete" -> "announcement_deleted"
      [] k = "school" /\ opType = "insert" -> "school_created"
      [] k = "school" /\ opType = "update" -> "school_updated"
      [] k = "school" /\ opType = "delete" -> "school_deleted"
      [] k = "review" /\ opType = "insert" -> "review_created"
      [] k = "review" /\ opType = "update" -> "review_updated"
      [] k = "review" /\ opType = "delete" -> "review_deleted"

\* An event as handed to io.emit.  name and payload are what goes on the wire;
\* src, kind, op and wid record which path emitted it and for which write.
Event(name, payload, src, k, op, w) ==
    [name |-> name, payload |-> payload, src |-> src, kind |-> k, op |-> op, wid |-> w]

\* io.emit(event, data): one copy to every connected socket.
RoomOf(k) ==
    CASE k = "announcement" -> "announcements"
      [] k = "school" -> "schools"
      [] k = "review" -> "reviews"
      [] OTHER -> "inquiries"
DeliverMutantToRoom(ib, ev) ==
    [s \in Sockets |-> IF s \in open /\ RoomOf(ev.kind) \in rooms[s]
                        THEN Append(ib[s], ev) ELSE ib[s]]
DeliverMutantToGone(ib, ev) ==
    [s \in Sockets |-> IF s <= nconn THEN Append(ib[s], ev) ELSE ib[s]]
Deliver(ib, ev) ==
    [s \in Sockets |-> IF s \in open THEN Append(ib[s], ev) ELSE ib[s]]

\* The routes each build defines, as (kind, operation) pairs.
Routes ==
    IF variant = 1
    THEN {<<"inquiry", "create">>}
            \cup ({"announcement", "school", "review"} \X {"create", "update", "delete"})
    ELSE {<<"inquiry", "create">>, <<"inquiry", "update">>}
            \cup ({"announcement", "school", "review"} \X {"create", "update", "delete"})

\* Does the handler of (k, op) call broadcastToClients after its write?
\* Every one does, except PATCH /api/inquiries/:id/status.
Broadcasts(k, op) == ~(k = "inquiry" /\ op = "update")

\* HTTP status of a successful write
SuccessStatus(op) == IF op = "create" THEN 201 ELSE 200

\* Is a request body that fails validation rejected by the handler of (k, op)?
\* Variant 2's update handlers call findByIdAndUpdate without runValidators and
\* check nothing themselves, so they reject nothing.
Rejects(k, op) == op = "create" \/ (variant = 1 /\ op = "update")

\* HTTP status answered when the request body is rejected.
InvalidStatus(k, op) ==
    IF variant = 1
    THEN IF k = "inquiry" THEN 500
         ELSE IF op = "create" \/ k = "announcement" THEN 400
         ELSE 500
    ELSE IF k = "review" THEN 500 ELSE 400

\* What becomes of the process after a promise rejects with no .catch():
\* variant 2 installs process.on('unhandledRejection') and lives on; variant 1
\* installs nothing, and node either warns or terminates the process.
UnhandledRejectionOutcomes == IF variant = 2 THEN {TRUE} ELSE {TRUE, FALSE}

\* What becomes of the process after a 'change' listener throws synchronously.
ListenerThrowOutcomes == {TRUE, FALSE}

\* ------------------------------------------------------------------ Init
Init ==
    /\ \E c \in Configs : variant = c[1] /\ baseUrlEnv = c[2]
    /\ running = TRUE
    /\ store = [k \in Kinds |-> (0 :> NewDoc(k, 0, 0, "ok"))]
    /\ nreq = 0
    /\ reqs = {}
    /\ responses = [w \in Wids |-> 0]
    /\ feed = [k \in Kinds |-> << >>]
    /\ lookups = {}
    /\ nconn = 0
    /\ open = {}
    /\ rooms = [s \in Sockets |-> {}]
    /\ inbox = [s \in Sockets |-> << >>]
    /\ emitted = << >>
    /\ joinedAt = [s \in Sockets |-> 0]
    /\ leftAt = [s \in Sockets |-> 0]
    /\ sent = [s \in Sockets |-> << >>]
    /\ writes = [w \in Wids |-> NoWrite]
    /\ listing = {}

\* --------------------------------------------------------------- sockets

\* io.on('connection'): the socket gets its 'connected' acknowledgement.
ConnectedAck(s) ==
    Event("connected",
          IF variant = 1 THEN [timestamp |-> TRUE]
                         ELSE [timestamp |-> TRUE, clientId |-> s],
          "ack", "none", "none", 0)

ConnectMutantAckToAll ==
    /\ running
    /\ nconn < MaxConn
    /\ nconn + nreq < MaxLoad
    /\ LET s == nconn + 1 IN
        /\ nconn' = s
        /\ open' = open \cup {s}
        /\ rooms' = [rooms EXCEPT ![s] = {}]
        /\ inbox' = [t \in Sockets |->
                        IF t = s THEN <<ConnectedAck(s)>>
                        ELSE IF t \in open THEN Append(inbox[t], ConnectedAck(s))
                        ELSE inbox[t]]
        /\ joinedAt' = [joinedAt EXCEPT ![s] = Len(emitted)]
        /\ sent' = [sent EXCEPT ![s] = << >>]
    /\ UNCHANGED <<listing, variant, baseUrlEnv, running, store, nreq, reqs, responses,
                   feed, lookups, emitted, leftAt, writes>>
ConnectMutantReplay ==
    /\ running
    /\ nconn < MaxConn
    /\ nconn + nreq < MaxLoad
    /\ LET s == nconn + 1 IN
        /\ nconn' = s
        /\ open' = open \cup {s}
        /\ rooms' = [rooms EXCEPT ![s] = {}]
        /\ inbox' = [inbox EXCEPT ![s] = <<ConnectedAck(s)>> \o emitted]
        /\ joinedAt' = [joinedAt EXCEPT ![s] = Len(emitted)]
        /\ sent' = [sent EXCEPT ![s] = << >>]
    /\ UNCHANGED <<listing, variant, baseUrlEnv, running, store, nreq, reqs, responses,
                   feed, lookups, emitted, leftAt, writes>>
Connect ==
    /\ running
    /\ nconn < MaxConn
    /\ nconn + nreq < MaxLoad
    /\ LET s == nconn + 1 IN
        /\ nconn' = s
        /\ open' = open \cup {s}
        /\ rooms' = [rooms EXCEPT ![s] = {}]
        /\ inbox' = [inbox EXCEPT ![s] = <<ConnectedAck(s)>>]
        /\ joinedAt' = [joinedAt EXCEPT ![s] = Len(emitted)]
        /\ sent' = [sent EXCEPT ![s] = << >>]
    /\ UNCHANGED <<listing, variant, baseUrlEnv, running, store, nreq, reqs, responses,
                   feed, lookups, emitted, leftAt, writes>>

\* socket.on('join_announcements' | 'join_schools' | 'join_reviews')
JoinMutantToggle(s, room) ==
    /\ running
    /\ variant = 2
    /\ s \in open
    /\ Len(sent[s]) < MaxJoin
    /\ sent' = [sent EXCEPT ![s] = Append(@, room)]
    /\ rooms' = [rooms EXCEPT ![s] = IF room \in @ THEN @ \ {room} ELSE @ \cup {room}]
    /\ UNCHANGED <<listing, variant, baseUrlEnv, running, store, nreq, reqs, responses,
                   feed, lookups, nconn, open, inbox, emitted, joinedAt, leftAt,
                   writes>>
Join(s, room) ==
    /\ running
    /\ variant = 2
    /\ s \in open
    /\ Len(sent[s]) < MaxJoin
    /\ sent' = [sent EXCEPT ![s] = Append(@, room)]
    /\ rooms' = [rooms EXCEPT ![s] = @ \cup {room}]
    /\ UNCHANGED <<listing, variant, baseUrlEnv, running, store, nreq, reqs, responses,
                   feed, lookups, nconn, open, inbox, emitted, joinedAt, leftAt,
                   writes>>

\* socket.on('disconnect'): socket.io drops the socket and its room memberships;
\* what the client had received goes with the connection.
DisconnectMutantKeepRooms(s) ==
    /\ running
    /\ s \in open
    /\ open' = open \ {s}
    /\ inbox' = [inbox EXCEPT ![s] = << >>]
    /\ joinedAt' = [joinedAt EXCEPT ![s] = 0]
    /\ leftAt' = [leftAt EXCEPT ![s] = Len(emitted)]
    /\ sent' = [sent EXCEPT ![s] = << >>]
    /\ UNCHANGED <<listing, variant, baseUrlEnv, running, store, nreq, reqs, responses,
                   feed, lookups, nconn, rooms, emitted, writes>>
Disconnect(s) ==
    /\ running
    /\ s \in open
    /\ open' = open \ {s}
    /\ rooms' = [rooms EXCEPT ![s] = {}]
    /\ inbox' = [inbox EXCEPT ![s] = << >>]
    /\ joinedAt' = [joinedAt EXCEPT ![s] = 0]
    /\ leftAt' = [leftAt EXCEPT ![s] = Len(emitted)]
    /\ sent' = [sent EXCEPT ![s] = << >>]
    /\ UNCHANGED <<listing, variant, baseUrlEnv, running, store, nreq, reqs, responses,
                   feed, lookups, nconn, emitted, writes>>

\* broadcastToClients(event, data) / io.emit(event, data)
broadcastToClientsMutantDedup(ev) ==
    IF \E i \in DOMAIN emitted :
          emitted[i].name = ev.name /\ emitted[i].payload.id = ev.payload.id
    THEN UNCHANGED <<inbox, emitted>>
    ELSE /\ inbox' = Deliver(inbox, ev)
         /\ emitted' = Append(emitted, ev)
broadcastToClients(ev) ==
    /\ inbox' = Deliver(inbox, ev)
    /\ emitted' = Append(emitted, ev)

\* ------------------------------------------------- REST write handlers
\* Each handler runs up to its await (the store call, which commits or fails
\* there).  A handler whose write committed is resumed later by Resume /
\* ResumeEmitThrows; r.result is the document the store call returned.

Suspended(w, k, op, i, result) ==
    [wid |-> w, kind |-> k, op |-> op, id |-> i, result |-> result]

Change(opType, i, fullDocument, w) ==
    [opType |-> opType, id |-> i, doc |-> fullDocument, wid |-> w]

\* The request is answered without a write: validation failure (400/500),
\* store error (500), or no document of that id (404).
Refuse(w, status) ==
    /\ responses' = [responses EXCEPT ![w] = status]
    /\ UNCHANGED <<store, reqs, feed, writes>>

\* POST /api/{inquiries,announcements,schools,reviews}
CreateMutantEmitFirst(k, input) ==
    /\ running
    /\ nreq < MaxReq
    /\ nconn + nreq < MaxLoad
    /\ <<k, "create">> \in Routes
    /\ LET w == nreq + 1
           doc == NewDoc(k, w, w, input)
       IN  /\ nreq' = w
           /\ CASE input = "invalid" ->
                    /\ Refuse(w, InvalidStatus(k, "create"))
                    /\ UNCHANGED <<inbox, emitted>>
                [] input = "dberr" ->
                    /\ Refuse(w, 500)
                    /\ broadcastToClients(
                           Event(DirectEventName(k, "create"), DirectPayload(k, doc),
                                 "direct", k, "create", w))
                [] OTHER ->
                    /\ store' = [store EXCEPT ![k] = (w :> doc) @@ @]
                    /\ feed' = [feed EXCEPT ![k] = Append(@, Change("insert", w, <<doc>>, w))]
                    /\ reqs' = reqs \cup {Suspended(w, k, "create", w, doc)}
                    /\ writes' = [writes EXCEPT ![w] = [kind |-> k, op |-> "create", id |-> w]]
                    /\ UNCHANGED <<responses, inbox, emitted>>
    /\ UNCHANGED <<listing, variant, baseUrlEnv, running, lookups, nconn, open, rooms,
                   joinedAt, leftAt, sent>>
Create(k, input) ==
    /\ running
    /\ nreq < MaxReq
    /\ nconn + nreq < MaxLoad
    /\ <<k, "create">> \in Routes
    /\ LET w == nreq + 1
           doc == NewDoc(k, w, w, input)
       IN  /\ nreq' = w
           /\ CASE input = "invalid" -> Refuse(w, InvalidStatus(k, "create"))
                [] input = "dberr" -> Refuse(w, 500)
                [] OTHER ->
                    /\ store' = [store EXCEPT ![k] = (w :> doc) @@ @]
                    /\ feed' = [feed EXCEPT ![k] = Append(@, Change("insert", w, <<doc>>, w))]
                    /\ reqs' = reqs \cup {Suspended(w, k, "create", w, doc)}
                    /\ writes' = [writes EXCEPT ![w] = [kind |-> k, op |-> "create", id |-> w]]
                    /\ UNCHANGED responses
    /\ UNCHANGED <<listing, variant, baseUrlEnv, running, lookups, nconn, open, rooms,
                   inbox, emitted, joinedAt, leftAt, sent>>

\* PUT /api/{announcements,schools,reviews}/:id and PATCH /api/inquiries/:id/status
\* (findByIdAndUpdate with { new: true }).  The update rewrites the document's
\* fields (ver stands for their new content and updatedAt); requests carry no
\* new image file, so the stored file name is kept.  A body that fails the
\* schema is rejected only where the handler checks it or passes runValidators.
Update(k, i, input) ==
    /\ running
    /\ nreq < MaxReq
    /\ nconn + nreq < MaxLoad
    /\ <<k, "update">> \in Routes
    /\ LET w == nreq + 1 IN
        /\ nreq' = w
        /\ CASE input = "invalid" /\ Rejects(k, "update") ->
                    Refuse(w, InvalidStatus(k, "update"))
             [] input = "dberr" -> Refuse(w, 500)
             [] i \notin DOMAIN store[k] -> Refuse(w, 404)
             [] OTHER ->
                    LET doc == UpdatedDoc(k, store[k][i], w, input)
                    IN  /\ store' = [store EXCEPT ![k][i] = doc]
                        /\ feed' = [feed EXCEPT ![k] = Append(@, Change("update", i, << >>, w))]
                        /\ reqs' = reqs \cup {Suspended(w, k, "update", i, doc)}
                        /\ writes' = [writes EXCEPT ![w] = [kind |-> k, op |-> "update", id |-> i]]
                        /\ UNCHANGED responses
    /\ UNCHANGED <<listing, variant, baseUrlEnv, running, lookups, nconn, open, rooms,
                   inbox, emitted, joinedAt, leftAt, sent>>

\* DELETE /api/{announcements,schools,reviews}/:id (findByIdAndDelete)
Delete(k, i, input) ==
    /\ running
    /\ nreq < MaxReq
    /\ nconn + nreq < MaxLoad
    /\ <<k, "delete">> \in Routes
    /\ input # "invalid"
    /\ LET w == nreq + 1 IN
        /\ nreq' = w
        /\ CASE input = "dberr" -> Refuse(w, 500)
             [] i \notin DOMAIN store[k] -> Refuse(w, 404)
             [] OTHER ->
                    /\ store' = [store EXCEPT ![k] =
                                    [j \in (DOMAIN @) \ {i} |-> @[j]]]
                    /\ feed' = [feed EXCEPT ![k] = Append(@, Change("delete", i, << >>, w))]
                    /\ reqs' = reqs \cup {Suspended(w, k, "delete", i, store[k][i])}
                    /\ writes' = [writes EXCEPT ![w] = [kind |-> k, op |-> "delete", id |-> i]]
                    /\ UNCHANGED responses
    /\ UNCHANGED <<listing, variant, baseUrlEnv, running, lookups, nconn, open, rooms,
                   inbox, emitted, joinedAt, leftAt, sent>>

\* The rest of a handler after the await of a write that succeeded: the
\* broadcast (if the handler has one), then the success response.
Resume(r) ==
    /\ running
    /\ r \in reqs
    /\ reqs' = reqs \ {r}
    /\ responses' = [responses EXCEPT ![r.wid] = SuccessStatus(r.op)]
    /\ IF Broadcasts(r.kind, r.op)
       THEN broadcastToClients(
                Event(DirectEventName(r.kind, r.op),
                      IF r.op = "delete" THEN DirectDeletedPayload(r)
                                         ELSE DirectPayload(r.kind, r.result),
                      "direct", r.kind, r.op, r.wid))
       ELSE UNCHANGED <<inbox, emitted>>
    /\ UNCHANGED <<listing, variant, baseUrlEnv, running, store, nreq, feed, lookups,
                   nconn, open, rooms, joinedAt, leftAt, sent,
                   writes>>

\* The same continuation when broadcastToClients throws: the call sits inside
\* the handler's try block, so the catch block answers 500.
ResumeEmitThrows(r) ==
    /\ running
    /\ r \in reqs
    /\ Broadcasts(r.kind, r.op)
    /\ reqs' = reqs \ {r}
    /\ responses' = [responses EXCEPT ![r.wid] = 500]
    /\ UNCHANGED <<listing, variant, baseUrlEnv, running, store, nreq, feed, lookups,
                   nconn, open, rooms, inbox, emitted, joinedAt, leftAt, sent,
                   writes>>

\* ------------------------------------------------ change-stream handlers

Lookup(k, i, w, phase, result) ==
    [kind |-> k, id |-> i, wid |-> w, phase |-> phase, result |-> result]

\* changeStream.on('change', ...) of collection k, for the oldest pending change
OnChange(k) ==
    /\ running
    /\ feed[k] # << >>
    /\ LET c == Head(feed[k])
           name == StreamEventName(k, c.opType)
       IN  /\ feed' = [feed EXCEPT ![k] = Tail(@)]
           /\ CASE name = "" ->
                    UNCHANGED <<running, lookups, inbox, emitted>>
                [] c.opType = "insert" /\ StreamThrows(k) ->
                    /\ running' \in ListenerThrowOutcomes
                    /\ UNCHANGED <<lookups, inbox, emitted>>
                [] c.opType = "insert" ->
                    /\ broadcastToClients(
                           Event(name, StreamPayload(k, c.doc[1]), "stream", k, writes[c.wid].op, c.wid))
                    /\ UNCHANGED <<running, lookups>>
                [] c.opType = "update" ->
                    /\ lookups' = lookups \cup {Lookup(k, c.id, c.wid, "sent", << >>)}
                    /\ UNCHANGED <<running, inbox, emitted>>
                [] c.opType = "delete" ->
                    /\ broadcastToClients(
                           Event(name, StreamDeletedPayload(c), "stream", k, writes[c.wid].op, c.wid))
                    /\ UNCHANGED <<running, lookups>>
    /\ UNCHANGED <<listing, variant, baseUrlEnv, store, nreq, reqs, responses, nconn,
                   open, rooms, joinedAt, leftAt, sent,
                   writes>>

\* `if (updatedReview)`: did findById resolve to a document?
FoundMutantNoCheck(result) == TRUE
Found(result) == result # << >>

\* What io.emit is handed when findById resolved to null (not reached behind
\* the `if`).
NullPayload == [null |-> TRUE]

\* The store executes the findById of a pending lookup.
LookupRead(l) ==
    /\ running
    /\ l \in lookups
    /\ l.phase = "sent"
    /\ lookups' = (lookups \ {l}) \cup
                    {Lookup(l.kind, l.id, l.wid, "read",
                            IF l.id \in DOMAIN store[l.kind]
                            THEN <<store[l.kind][l.id]>> ELSE << >>)}
    /\ UNCHANGED <<listing, variant, baseUrlEnv, running, store, nreq, reqs, responses,
                   feed, nconn, open, rooms, inbox, emitted, joinedAt, leftAt, sent,
                   writes>>

\* .then(updated => { if (updated) io.emit('..._updated', ...) })
LookupThenMutantSaves(l) ==
    /\ running
    /\ l \in lookups
    /\ l.phase = "read"
    /\ lookups' = lookups \ {l}
    /\ CASE ~Found(l.result) ->
                UNCHANGED <<running, inbox, emitted, store>>
         [] StreamThrows(l.kind) ->
                /\ running' \in UnhandledRejectionOutcomes
                /\ UNCHANGED <<inbox, emitted, store>>
         [] OTHER ->
                /\ broadcastToClients(
                       Event(StreamEventName(l.kind, "update"),
                             StreamPayload(l.kind, l.result[1]),
                             "stream", l.kind, writes[l.wid].op, l.wid))
                /\ store' = IF l.id \in DOMAIN store[l.kind]
                            THEN [store EXCEPT ![l.kind][l.id] =
                                        StreamPayload(l.kind, l.result[1])]
                            ELSE store
                /\ UNCHANGED running
    /\ UNCHANGED <<listing, variant, baseUrlEnv, nreq, reqs, responses, feed,
                   nconn, open, rooms, joinedAt, leftAt, sent,
                   writes>>
LookupThen(l) ==
    /\ running
    /\ l \in lookups
    /\ l.phase = "read"
    /\ lookups' = lookups \ {l}
    /\ CASE ~Found(l.result) ->
                UNCHANGED <<running, inbox, emitted>>
         [] StreamThrows(l.kind) ->
                /\ running' \in UnhandledRejectionOutcomes
                /\ UNCHANGED <<inbox, emitted>>
         [] OTHER ->
                /\ broadcastToClients(
                       Event(StreamEventName(l.kind, "update"),
                             IF l.result = << >> THEN NullPayload
                             ELSE StreamPayload(l.kind, l.result[1]),
                             "stream", l.kind, writes[l.wid].op, l.wid))
                /\ UNCHANGED running
    /\ UNCHANGED <<listing, variant, baseUrlEnv, store, nreq, reqs, responses, feed,
                   nconn, open, rooms, joinedAt, leftAt, sent,
                   writes>>

\* The findById fails with a store error: the promise rejects and nothing
\* catches it.
LookupFail(l) ==
    /\ running
    /\ l \in lookups
    /\ l.phase = "sent"
    /\ lookups' = lookups \ {l}
    /\ running' \in UnhandledRejectionOutcomes
    /\ UNCHANGED <<listing, variant, baseUrlEnv, store, nreq, reqs, responses, feed,
                   nconn, open, rooms, inbox, emitted, joinedAt, leftAt, sent,
                   writes>>

\* ------------------------------------------------------------- listings

\* Math.ceil(total / limit)
CeilDiv(total, limit) == (total + limit - 1) \div limit

\* Ids of the inquiries matching `status ? { status } : {}`
Matching(status) ==
    {i \in DOMAIN store["inquiry"] :
        status = "" \/ store["inquiry"][i].status = status}

\* .sort({ timestamp: -1 }): the orders the store may return the records S
\* in.  Records with equal timestamps may come in any order, and the order
\* may differ from one query to the next.
DescOrders(S) ==
    {o \in [1..Cardinality(S) -> S] :
        /\ \A a, b \in DOMAIN o : a # b => o[a] # o[b]
        /\ \A a, b \in DOMAIN o :
              a < b => store["inquiry"][o[a]].timestamp >= store["inquiry"][o[b]].timestamp}

\* .limit(limit * 1).skip((page - 1) * limit) applied to the sorted records
PageOf(order, page, limit) ==
    LET skip == (page - 1) * limit
        last == IF skip + limit < Len(order) THEN skip + limit ELSE Len(order)
    IN  SubSeq(order, skip + 1, last)

\* GET /api/inquiries?page=&limit=&status=
GetInquiries(page, limit, status) ==
    /\ running
    /\ variant = 2
    /\ Cardinality(listing) < MaxGet
    /\ \E order \in DescOrders(Matching(status)) :
          listing' = listing \cup
              {[page |-> page, limit |-> limit, status |-> status,
                inquiries |-> PageOf(order, page, limit),
                totalPages |-> CeilDiv(Len(order), limit),
                currentPage |-> page,
                total |-> Cardinality(Matching(status))]}
    /\ UNCHANGED <<variant, baseUrlEnv, running, store, nreq, reqs, responses,
                   feed, lookups, nconn, open, rooms, inbox, emitted, joinedAt,
                   leftAt, sent, writes>>

\* Collections of up to MaxDocs inquiries left by earlier runs: ids 0, 1, ...
\* in the order of their timestamps, which clients may have supplied and which
\* may therefore be equal.
StoredInquiries ==
    {c \in UNION {[0..(n - 1) -> [status : {"new", "resolved"}, timestamp : 1..MaxTime]]
                    : n \in 0..MaxDocs} :
        \A i, j \in DOMAIN c : i < j => c[i].timestamp <= c[j].timestamp}

\* The second build serving listings of such a collection.
ListInit ==
    /\ variant = 2
    /\ baseUrlEnv = ""
    /\ running = TRUE
    /\ \E c \in StoredInquiries :
          store = [k \in Kinds |->
                     IF k = "inquiry"
                     THEN [i \in DOMAIN c |->
                             [NewDoc(k, i, 0, "ok") EXCEPT !.status = c[i].status,
                                                          !.timestamp = c[i].timestamp]]
                     ELSE (0 :> NewDoc(k, 0, 0, "ok"))]
    /\ nreq = 0
    /\ reqs = {}
    /\ responses = [w \in Wids |-> 0]
    /\ feed = [k \in Kinds |-> << >>]
    /\ lookups = {}
    /\ nconn = 0
    /\ open = {}
    /\ rooms = [s \in Sockets |-> {}]
    /\ inbox = [s \in Sockets |-> << >>]
    /\ emitted = << >>
    /\ joinedAt = [s \in Sockets |-> 0]
    /\ leftAt = [s \in Sockets |-> 0]
    /\ sent = [s \in Sockets |-> << >>]
    /\ writes = [w \in Wids |-> NoWrite]
    /\ listing = {}

ListNext ==
    \E page \in 1..MaxPage, limit \in 1..MaxLimit, status \in {"", "new"} :
        GetInquiries(page, limit, status)

ListSpec == ListInit /\ [][ListNext]_vars

\* ------------------------------------------------------------------ Next
Inputs == {"ok", "invalid", "dberr"}

\* Ids a request may name: the seed document's and those handed out so far
\* (a created document gets its request number as id).  An id of this set that
\* is not, or no longer, in the collection addressed is the not-found case.
TargetIds == 0..nreq

Next ==
    \/ Connect
    \/ \E s \in Sockets, room \in Rooms : Join(s, room)
    \/ \E s \in Sockets : Disconnect(s)
    \/ \E k \in Kinds, input \in Inputs : Create(k, input)
    \/ \E k \in Kinds, i \in TargetIds, input \in Inputs : Update(k, i, input)
    \/ \E k \in Kinds, i \in TargetIds, input \in Inputs : Delete(k, i, input)
    \/ \E r \in reqs : Resume(r)
    \/ \E r \in reqs : ResumeEmitThrows(r)
    \/ \E k \in Kinds : OnChange(k)
    \/ \E l \in lookups : LookupRead(l)
    \/ \E l \in lookups : LookupThen(l)
    \/ \E l \in lookups : LookupFail(l)

Spec == Init /\ [][Next]_vars

\* The node event loop runs every callback that is ready: a handler whose
\* awaited store call has completed is resumed, a change event that has arrived
\* is handed to its 'change' listener, and the .then callback of a findById
\* that has resolved is run.  Nothing makes clients send requests or the store
\* answer a findById.
FairSpec ==
    /\ Spec
    /\ WF_vars(\E r \in reqs : Resume(r) \/ ResumeEmitThrows(r))
    /\ WF_vars(\E k \in Kinds : OnChange(k))
    /\ WF_vars(\E l \in lookups : LookupThen(l))

\* ---------------------------------------------------------------- claims

\* Positions in emitted of the events emitted for write w
EventsOf(w) == {i \in DOMAIN emitted : emitted[i].wid = w}

\* Number of events socket s has received for write w
Received(s, w) == Cardinality({i \in DOMAIN inbox[s] : inbox[s][i].wid = w})

\* Write w has been answered with success and nothing of it is still in
\* flight on the change-stream side.
Settled(w) ==
    /\ responses[w] \in {200, 201}
    /\ \A k \in Kinds : \A i \in DOMAIN feed[k] : feed[k][i].wid # w
    /\ \A l \in lookups : l.wid # w

\* C1: for a successful create, update or delete, each client connected while
\* the write's events were emitted has received exactly one event for it once
\* both the handler and the change stream are done with the write.
C1_ExactlyOneEventPerWrite ==
    \A s \in open : \A w \in Wids :
        (/\ Settled(w)
         /\ EventsOf(w) # {}
         /\ \A i \in EventsOf(w) : i > joinedAt[s])
        => Received(s, w) = 1

\* C2: a socket whose only room is 'schools' receives school events only.
C2_SchoolsRoomOnly ==
    [][\A s \in Sockets :
         (/\ s \in open /\ s \in open'
          /\ rooms[s] = {"schools"}
          /\ Len(inbox'[s]) > Len(inbox[s]))
         => inbox'[s][Len(inbox'[s])].kind = "school"]_vars

\* C3: a connected socket that has joined no room has received, after its
\* 'connected' acknowledgement, exactly the events emitted since it connected,
\* in the order of emission.
C3_NoJoinReceivesAll ==
    \A s \in open :
        rooms[s] = {} =>
            Tail(inbox[s]) = SubSeq(emitted, joinedAt[s] + 1, Len(emitted))

\* C3 witness: a socket that joined no room has received a direct event and a
\* change-stream event of two different entity kinds.
C3_Witness ==
    \E s \in open :
        /\ rooms[s] = {}
        /\ \E i, j \in DOMAIN inbox[s] :
              /\ inbox[s][i].src = "direct"
              /\ inbox[s][j].src = "stream"
              /\ inbox[s][i].kind # inbox[s][j].kind

\* C4: every write request answered with success has had its event handed to
\* broadcastToClients by its handler.
C4_EverySuccessfulWriteBroadcasts ==
    \A w \in Wids :
        responses[w] \in {200, 201} =>
            \E i \in EventsOf(w) : emitted[i].src = "direct"

\* C5: no socket receives an updated event carrying the state of an earlier
\* committed update after one carrying the state of a later committed update
\* of the same record (ver is the number of the update that wrote the state,
\* and updates commit in the order of their numbers).
C5_UpdatedInCommitOrder ==
    \A s \in Sockets : \A i, j \in DOMAIN inbox[s] :
        (/\ i < j
         /\ inbox[s][i].op = "update" /\ inbox[s][j].op = "update"
         /\ inbox[s][i].kind = inbox[s][j].kind
         /\ inbox[s][i].payload.id = inbox[s][j].payload.id)
        => inbox[s][i].payload.ver <= inbox[s][j].payload.ver
\* C6: when the findById of an update notification resolved to no document
\* (the record was deleted meanwhile), completing that notification emits
\* nothing, delivers nothing, answers no request and leaves the process alive.
C6_VanishedRecordDropsSilently ==
    [][\A l \in lookups :
         (l.phase = "read" /\ l.result = << >> /\ l \notin lookups')
         => /\ emitted' = emitted
            /\ inbox' = inbox
            /\ responses' = responses
            /\ running' = running]_vars

\* C6 witness: with a client connected, the lookup of an update notification
\* has come back empty because the record is gone from the store.
C6_Witness ==
    /\ open # {}
    /\ \E l \in lookups :
          /\ l.phase = "read"
          /\ l.result = << >>
          /\ writes[l.wid].op = "update"
          /\ l.id \notin DOMAIN store[l.kind]

\* C7: a request whose write was committed to the store is never answered with
\* an error status, whatever happens in its broadcast step.
C7_CommittedWriteAnsweredWithSuccess ==
    \A w \in Wids :
        writes[w] # NoWrite => responses[w] \in {0, SuccessStatus(writes[w].op)}

\* C8: when the findById of an update notification fails with a store error,
\* nothing is emitted and the server keeps running.
C8_LookupErrorKeepsServerRunning ==
    [][(\E l \in lookups : LookupFail(l)) => (running' /\ emitted' = emitted)]_vars

\* The event-name suffix the taxonomy gives each kind of write
TaxonomySuffix(op) ==
    CASE op = "create" -> "_created"
      [] op = "update" -> "_updated"
      [] op = "delete" -> "_deleted"
      [] OTHER -> "_none"

\* C9: every emitted event is named {entity}_{created|updated|deleted}, with
\* the entity kind and the operation of the write it was emitted for.
C9_EventNamesFollowTaxonomy ==
    \A i \in DOMAIN emitted :
        LET e == emitted[i]
            wr == writes[e.wid]
        IN  /\ wr.kind \in Kinds
            /\ e.kind = wr.kind
            /\ e.name = wr.kind \o TaxonomySuffix(wr.op)

\* C9 witness: the change stream has emitted a deleted event and a REST
\* handler has emitted a created event.
C9_Witness ==
    \E i, j \in DOMAIN emitted :
        /\ emitted[i].src = "stream" /\ writes[emitted[i].wid].op = "delete"
        /\ emitted[j].src = "direct" /\ writes[emitted[j].wid].op = "create"

\* C10: the created / updated events the two paths emit for the same write and
\* the same state of the record carry equal payloads.
C10_BothPathsSamePayload ==
    \A i, j \in DOMAIN emitted :
        (/\ emitted[i].wid = emitted[j].wid
         /\ emitted[i].src = "direct" /\ emitted[j].src = "stream"
         /\ emitted[i].op \in {"create", "update"}
         /\ emitted[i].payload.ver = emitted[j].payload.ver)
        => emitted[i].payload = emitted[j].payload

\* C11: every {entity}_deleted event carries a payload whose only field is
\* id, and that id is the id of the record the event's write deleted from the
\* store of that entity kind.
C11_DeletedCarriesIdOnly ==
    \A i \in DOMAIN emitted :
        LET e == emitted[i] IN
        e.name = e.kind \o "_deleted" =>
            /\ DOMAIN e.payload = {"id"}
            /\ writes[e.wid] = [kind |-> e.kind, op |-> "delete", id |-> e.payload.id]
            /\ e.payload.id \notin DOMAIN store[e.kind]

\* C11 witness: a DELETE handler and the change stream have both emitted the
\* deleted event of the same delete.
C11_Witness ==
    \E i, j \in DOMAIN emitted :
        /\ emitted[i].wid = emitted[j].wid
        /\ emitted[i].name = emitted[i].kind \o "_deleted"
        /\ emitted[j].name = emitted[i].name
        /\ emitted[i].src = "direct" /\ emitted[j].src = "stream"

\* C12: a connected socket has received none of the events that were emitted
\* before it connected.
C12_NoReplayToLaterConnection ==
    \A s \in open : \A i \in 1..joinedAt[s] : \A j \in DOMAIN inbox[s] :
        inbox[s][j] # emitted[i]

\* C12 witness: a socket that connected after an event had been emitted has
\* since received a later event.
C12_Witness ==
    \E s \in open :
        /\ joinedAt[s] > 0
        /\ Len(inbox[s]) > 1
        /\ inbox[s][2] = emitted[joinedAt[s] + 1]

\* C13: once socket s has disconnected, no step delivers anything to it; an
\* emission made while s is gone leaves the process running and reaches every
\* socket still connected; and the disconnect handling applied to s again
\* would leave the sockets' state as it is.
C13_GoneSocketGetsNothing ==
    [][\A s \in Sockets :
         (s <= nconn /\ s \notin open) =>
            /\ s \notin open'
            /\ inbox'[s] = inbox[s]
            /\ emitted' # emitted =>
                  /\ running'
                  /\ Len(emitted') = Len(emitted) + 1
                  /\ \A t \in open :
                        inbox'[t] = Append(inbox[t], emitted'[Len(emitted')])
            /\ open \ {s} = open
            /\ [rooms EXCEPT ![s] = {}] = rooms
            /\ [inbox EXCEPT ![s] = << >>] = inbox]_vars

\* C13 witness: an event was emitted after one socket had disconnected, and a
\* socket that was connected all along has received it.
C13_Witness ==
    \E s \in Sockets \ open : \E t \in open :
        /\ s <= nconn
        /\ joinedAt[t] <= leftAt[s]
        /\ leftAt[s] < Len(emitted)
        /\ inbox[t][Len(inbox[t])] = emitted[Len(emitted)]

\* The findById started for the update notification of write w has not been
\* answered by the store.
AwaitingStore(w) == \E l \in lookups : l.wid = w /\ l.phase = "sent"

\* C14: the lookup of an update notification does not stay pending forever:
\* a lookup the store has not answered is eventually given up.
C14_LookupNeverPendingForever ==
    \A w \in Wids : AwaitingStore(w) ~> ~AwaitingStore(w)

C16_OneConnectedAckPerSocket ==
    /\ \A s \in open :
          /\ Len(inbox[s]) >= 1
          /\ inbox[s][1] = ConnectedAck(s)
          /\ inbox[s][1].name = "connected"
          /\ inbox[s][1].wid \notin Wids
          /\ \A j \in 2..Len(inbox[s]) : inbox[s][j].name # "connected"
    /\ \A i \in DOMAIN emitted : emitted[i].name # "connected"

\* C16 witness: two sockets are connected, and the one that connected first
\* has also received the event of a write.
C16_Witness ==
    /\ open = {1, 2}
    /\ Len(inbox[1]) > 1
    /\ inbox[1][Len(inbox[1])].wid \in Wids

\* C17: the 'connected' acknowledgement a socket received carries a server
\* timestamp and the identifier of that socket.
C17_AckCarriesTimestampAndId ==
    \A s \in open :
        LET ack == inbox[s][1].payload IN
        /\ {"timestamp", "clientId"} \subseteq DOMAIN ack
        /\ ack.clientId = s

\* C18: a socket that has sent the same join message twice is in exactly the
\* room one such message puts it in, and has received each event emitted
\* since it connected exactly once, in order.
C18_JoinTwiceSameAsOnce ==
    \A s \in open :
        (Len(sent[s]) = 2 /\ sent[s][1] = sent[s][2]) =>
            /\ rooms[s] = {sent[s][1]}
            /\ Len(inbox[s]) = 1 + Len(emitted) - joinedAt[s]
            /\ \A j \in 2..Len(inbox[s]) :
                  inbox[s][j] = emitted[joinedAt[s] + j - 1]

\* C18 witness: a socket has sent join_schools twice and has then received
\* the two events of a school write.
C18_Witness ==
    \E s \in open :
        /\ sent[s] = <<"schools", "schools">>
        /\ Len(inbox[s]) = 3
        /\ inbox[s][2].kind = "school" /\ inbox[s][3].kind = "school"
        /\ inbox[s][2].wid = inbox[s][3].wid

\* The join messages socket s has sent since it connected, as a set of rooms
JoinsSent(s) == {sent[s][i] : i \in DOMAIN sent[s]}

\* C19: after every step, a connected socket is in room T exactly when it
\* has sent join_T since it connected, and a socket that is not connected is
\* in no room; and no step takes a socket that stays connected out of a room.
C19_MembershipIsJoinsSent ==
    [][\A s \in Sockets :
         /\ s \in open' => rooms'[s] = JoinsSent(s)'
         /\ s \notin open' => rooms'[s] = {}
         /\ (s \in open /\ s \in open') => rooms[s] \subseteq rooms'[s]]_vars

\* C19 witness: a connected socket that has sent join_announcements and then
\* join_reviews is in those two rooms.
C19_Witness ==
    \E s \in open :
        /\ sent[s] = <<"announcements", "reviews">>
        /\ rooms[s] = {"announcements", "reviews"}

\* C20: a step of a change-stream handler (taking a change event off its
\* stream, or starting, resolving or failing the findById of an update
\* notification) leaves every collection of the store as it was.
C20_RelayLeavesStoreUnchanged ==
    [][((\E k \in Kinds : Len(feed'[k]) < Len(feed[k])) \/ lookups' # lookups)
        => store' = store]_vars

\* C20 witness: the schools change stream of the first build has emitted a
\* school_updated event whose image it rewrote to a URL, and the stored
\* school still has the file name.
C20_Witness ==
    \E i \in DOMAIN emitted :
        LET e == emitted[i] IN
        /\ e.src = "stream" /\ e.name = "school_updated"
        /\ e.payload.id \in DOMAIN store["school"]
        /\ e.payload.img # UploadFile
        /\ store["school"][e.payload.id].img = UploadFile

\* C21: no {entity}_updated event for a record is emitted after an
\* {entity}_deleted event for the same record.
C21_NoUpdatedAfterDeleted ==
    \A i, j \in DOMAIN emitted :
        (/\ i < j
         /\ emitted[i].name = emitted[i].kind \o "_deleted"
         /\ emitted[j].kind = emitted[i].kind
         /\ emitted[j].name = emitted[j].kind \o "_updated")
        => emitted[j].payload.id # emitted[i].payload.id

\* C22: every step that emits a mutation event emits it for a write of that
\* kind, operation and record that was committed to the store before the
\* step; and the step in which a broadcasting handler answers its request
\* with success has emitted the handler's event by then.
C22_EventsFollowCommit ==
    [][/\ \A i \in (DOMAIN emitted') \ (DOMAIN emitted) :
             LET e == emitted'[i] IN
             /\ e.wid \in Wids
             /\ writes[e.wid] = [kind |-> e.kind, op |-> e.op, id |-> e.payload.id]
             /\ e.op = "delete" => e.payload.id \notin DOMAIN store[e.kind]
       /\ \A w \in Wids :
             (/\ responses[w] = 0
              /\ responses'[w] \in {200, 201}
              /\ Broadcasts(writes[w].kind, writes[w].op))
             => \E i \in DOMAIN emitted' :
                   emitted'[i].wid = w /\ emitted'[i].src = "direct"]_vars

\* C22 witness: a handler has emitted the event of a committed update and
\* answered 200, and the change stream has emitted the event of a committed
\* delete.
C22_Witness ==
    /\ \E i \in DOMAIN emitted :
          emitted[i].src = "direct" /\ emitted[i].op = "update"
             /\ responses[emitted[i].wid] = 200
    /\ \E j \in DOMAIN emitted :
          emitted[j].src = "stream" /\ emitted[j].op = "delete"

\* The step answers the request it takes with the given status, emits and
\* delivers nothing and leaves the store and the change streams as they were.
FailsQuietly(status) ==
    /\ responses'[nreq'] = status
    /\ store' = store /\ feed' = feed
    /\ emitted' = emitted /\ inbox' = inbox

\* C23: a write request that fails emits nothing and leaves the store
\* unchanged; a create whose body lacks required fields or its image is
\* answered 400, an update or delete of an id that is not in the collection
\* 404, and a request that meets a store error 500.
C23_FailedWriteIsQuiet ==
    [][\A k \in Kinds :
         /\ Create(k, "invalid") => FailsQuietly(400)
         /\ Create(k, "dberr") => FailsQuietly(500)
         /\ \A i \in TargetIds :
               /\ Update(k, i, "dberr") => FailsQuietly(500)
               /\ Delete(k, i, "dberr") => FailsQuietly(500)
               /\ i \notin DOMAIN store[k] =>
                     /\ Update(k, i, "ok") => FailsQuietly(404)
                     /\ Delete(k, i, "ok") => FailsQuietly(404)]_vars

\* The step emits exactly one event, a school event whose image is the base
\* URL followed by /uploads/ and the stored file name, and the process lives.
EmitsSchoolWithUrl(doc) ==
    /\ running'
    /\ Len(emitted') = Len(emitted) + 1
    /\ emitted'[Len(emitted')].kind = "school"
    /\ emitted'[Len(emitted')].payload.img =
            getBaseUrl(ReqOrigin) \o "/uploads/" \o doc.img

\* C24: whenever the schools change stream handles an insert, or the .then
\* callback of an update's findById runs with the school found, the step
\* does not throw and emits the school event with the full image URL,
\* whether BASE_URL is set or not.
C24_SchoolStreamEmitsFullUrl ==
    [][/\ (/\ running
           /\ feed["school"] # << >>
           /\ Len(feed'["school"]) < Len(feed["school"])
           /\ Head(feed["school"]).opType = "insert")
          => EmitsSchoolWithUrl(Head(feed["school"]).doc[1])
       /\ \A l \in lookups :
            (/\ l.kind = "school" /\ l.phase = "read" /\ l.result # << >>
             /\ l \notin lookups')
            => EmitsSchoolWithUrl(l.result[1])]_vars

\* C25: every review in the store has a rating from 1 to 5.
C25_RatingsInRange ==
    \A i \in DOMAIN store["review"] : store["review"][i].rating \in 1..5

\* C26: every inquiry in the store has a status of the schema's enum.
C26_StatusInEnum ==
    \A i \in DOMAIN store["inquiry"] :
        store["inquiry"][i].status \in {"new", "contacted", "resolved"}

\* C27: every listing response holds at most limit records in descending
\* time order, as many as positions (page-1)*limit .. min(page*limit, total)-1
\* exist, and reports total and totalPages = ceil(total/limit); and responses
\* for the pages 1..totalPages of one listing (same limit and filter, store
\* unchanged), one per page, together hold every matching record exactly once.
C27_PagesPartitionTheListing ==
    /\ \A r \in listing :
          LET skip == (r.page - 1) * r.limit
              upto == IF r.page * r.limit < r.total THEN r.page * r.limit ELSE r.total
          IN  /\ r.total = Cardinality(Matching(r.status))
              /\ r.totalPages = CeilDiv(r.total, r.limit)
              /\ Len(r.inquiries) = IF upto > skip THEN upto - skip ELSE 0
              /\ \A a, b \in DOMAIN r.inquiries :
                    a < b => store["inquiry"][r.inquiries[a]].timestamp
                                >= store["inquiry"][r.inquiries[b]].timestamp
    /\ \A r1, r2 \in listing :
          (r1.limit = r2.limit /\ r1.status = r2.status /\ r1.page # r2.page)
          => \A a \in DOMAIN r1.inquiries, b \in DOMAIN r2.inquiries :
                r1.inquiries[a] # r2.inquiries[b]

=============================================================================
